---- MODULE Spec2Model ----
(***************************************************************************)
(* The ASEAN CO2 dashboard script (05_modeling_trends_dashboard.py) as a   *)
(* state machine.  One run of the script is a walk of pc from "start" to   *)
(* "done" (or to "exception" when a call raises); Streamlit runs the       *)
(* script again from the top on every user interaction.                    *)
(*                                                                         *)
(* Optional cells of a data frame (NaN) are sets: {} is NaN, {v} is v.     *)
(* Observed values are exact rationals <<num, den>> in lowest terms.       *)
(* The fitted values of the two library models are terms: a prediction is  *)
(* determined by the training data and the point it is made at; Prophet's  *)
(* interval bounds also depend on the draws of numpy's global generator.   *)
(***************************************************************************)
EXTENDS Integers, Sequences, FiniteSets, TLC

\* ---------------------------------------------------------------- bounds
FirstYear == 2018
LastYear == 2021
MaxRows == 3
Countries == {"Indonesia", "Malaysia"}
Values == {1, 2}
Draws == {"draw_a", "draw_b"}

\* ------------------------------------------------------ program constants
AllCountries == "All ASEAN Countries"
HistDefault == 2020
FutureSliderMax == 2040
FutureDefault == 2035

VARIABLES
    df,                   \* the loaded CSV: a set of rows
    session,              \* the widgets' values, kept by Streamlit across runs
    pc,                   \* the script's position
    error,                \* the exception that ended the run, or "none"
    rendered,             \* the elements this run has put on the page, in order
    selected_country,
    selected_year_hist,
    future_year,
    df_filtered_forecast,
    model,
    poly_df,
    prophet_model,
    forecast_result,
    outer_df,             \* compare_df after the outer merge and sort (l. 179-183)
    compare_df,           \* compare_df after the left merge (l. 186)
    prev_compare_df       \* history: the previous run's compare_df, same input

vars == <<df, session, pc, error, rendered, selected_country, selected_year_hist,
          future_year, df_filtered_forecast, model, poly_df, prophet_model,
          forecast_result, outer_df, compare_df, prev_compare_df>>

\* ---------------------------------------------------------------- helpers
Min(a, b) == IF a <= b THEN a ELSE b

SetMin(S) == CHOOSE x \in S : \A y \in S : x <= y

SetMax(S) == CHOOSE x \in S : \A y \in S : x >= y

RECURSIVE GCD(_, _)
GCD(a, b) == IF b = 0 THEN a ELSE GCD(b, a % b)

\* a float cell holding the integer or the quotient it was read or computed as
Float(num, den) == LET g == GCD(num, den) IN <<num \div g, den \div g>>

RECURSIVE Flatten(_)
Flatten(ss) == IF ss = <<>> THEN <<>> ELSE Head(ss) \o Flatten(Tail(ss))

\* the rows of a table in the order the file holds them (an order, not a sort)
RECURSIVE RowsOf(_)
RowsOf(S) ==
    IF S = {} THEN <<>>
    ELSE LET r == CHOOSE x \in S : TRUE IN <<r>> \o RowsOf(S \ {r})

Years(frame) == {frame[i].year : i \in 1..Len(frame)}

\* ------------------------------------------------------ pandas operations
\* DataFrame.sort_values("year"), ascending
RECURSIVE InsertByYear(_, _)
InsertByYear(r, s) ==
    IF s = <<>> THEN <<r>>
    ELSE IF r.year <= Head(s).year THEN <<r>> \o s
    ELSE <<Head(s)>> \o InsertByYear(r, Tail(s))

\* variant: sort_values("year", ascending=False)
RECURSIVE SortValuesDescending(_)
SortValuesDescending(frame) ==
    IF frame = <<>> THEN <<>>
    ELSE LET rest == SortValuesDescending(Tail(frame))
             r == Head(frame)
             n == Cardinality({i \in 1..Len(rest) : rest[i].year > r.year})
         IN SubSeq(rest, 1, n) \o <<r>> \o SubSeq(rest, n + 1, Len(rest))

RECURSIVE SortValues(_)
SortValues(frame) ==
    IF frame = <<>> THEN <<>>
    ELSE InsertByYear(Head(frame), SortValues(Tail(frame)))

\* df.groupby("year", as_index=False)["co2_per_capita"].mean()
RECURSIVE SumOf(_)
SumOf(rows) ==
    IF rows = {} THEN 0
    ELSE LET r == CHOOSE x \in rows : TRUE
         IN r.co2_per_capita + SumOf(rows \ {r})

GroupByYearMean(data) ==
    LET group(y) == {r \in data : r.year = y}
        years == RowsOf({r.year : r \in data})
    IN [i \in 1..Len(years) |->
           [year |-> years[i],
            co2_per_capita |->
                Float(SumOf(group(years[i])), Cardinality(group(years[i])))]]

\* df[df["country"] == c][["year", "co2_per_capita"]]
FilterCountry(data, c) ==
    LET rows == RowsOf({r \in data : r.country = c})
    IN [i \in 1..Len(rows) |->
           [year |-> rows[i].year,
            co2_per_capita |-> Float(rows[i].co2_per_capita, 1)]]

\* lines 135-146
Series(data, country) ==
    IF country = AllCountries
    THEN SortValues(GroupByYearMean(data))
    ELSE SortValues(FilterCountry(data, country))

\* np.arange(a, b)
Arange(a, b) == IF b > a THEN [i \in 1..(b - a) |-> a + i - 1] ELSE <<>>
\* ------------------------------------------------- polynomial regression
\* PolynomialFeatures(degree=2).fit_transform and LinearRegression().fit:
\* the fitted model is determined by its training data
LinearRegressionFit(series) ==
    [X_hist |-> [i \in 1..Len(series) |-> series[i].year],
     y_hist |-> [i \in 1..Len(series) |-> series[i].co2_per_capita]]

\* model.predict(poly.transform(x)): a term of the fitted model and the year
PolyPredict(m, year) == [fit |-> m, at |-> year]

\* variant: np.arange(min_year, future_year_int), the stop year left out
FutureYearsExclusive(lo, hi) == Arange(lo, hi)

\* X_future and poly_df["year"]: np.arange(min_year, future_year_int + 1)
FutureYears(lo, hi) == Arange(lo, hi + 1)

\* lines 159-166
PolyFrame(m, lo, hi) ==
    LET ys == FutureYears(lo, hi)
    IN [i \in 1..Len(ys) |->
           [year |-> ys[i], poly_prediction |-> {PolyPredict(m, ys[i])}]]

\* ---------------------------------------------------------------- dates
Date(y, m, d) == [year |-> y, month |-> m, day |-> d]

DateBefore(a, b) ==
    \/ a.year < b.year
    \/ a.year = b.year /\ a.month < b.month
    \/ a.year = b.year /\ a.month = b.month /\ a.day < b.day

\* pd.to_datetime(year, format="%Y"): the first day of the year
ToDatetime(y) == Date(y, 1, 1)

\* Series.dt.year
DtYear(ds) == ds.year

\* pd.date_range(start=start, periods=periods, freq="Y"): year ends, the
\* first one the year end on or after start
DateRange(start, periods) ==
    [i \in 1..periods |-> Date(start.year + i - 1, 12, 31)]

\* ------------------------------------------------------------- Prophet
\* lines 169-170
ProphetFrame(series) ==
    [i \in 1..Len(series) |->
        [ds |-> ToDatetime(series[i].year), y |-> series[i].co2_per_capita]]

\* Prophet.fit raises ValueError on fewer than 2 rows
FitRaises(df_prophet) == Len(df_prophet) < 2

\* Prophet(...).fit(df_prophet): the fitted model keeps its history
ProphetFit(df_prophet) == [history |-> df_prophet]

HistoryDates(m) == [i \in 1..Len(m.history) |-> m.history[i].ds]

\* Prophet.make_future_dataframe(periods, freq="Y"), include_history=True
MakeFutureDataframe(m, periods) ==
    LET hist == HistoryDates(m)
        last_date == hist[Len(hist)]
        dates == DateRange(last_date, periods + 1)
        after == SelectSeq(dates, LAMBDA d : DateBefore(last_date, d))
        kept == SubSeq(after, 1, Min(periods, Len(after)))
    IN hist \o kept

\* Prophet.predict: yhat is the fitted trend at ds; the interval bounds are
\* quantiles of samples drawn from numpy's global generator, which the
\* script never seeds
ProphetPredict(m, future_df, draw) ==
    [i \in 1..Len(future_df) |->
        [ds |-> future_df[i],
         yhat |-> {[fit |-> m, at |-> future_df[i]]},
         yhat_lower |-> {[fit |-> m, at |-> future_df[i], q |-> "lower", rng |-> draw]},
         yhat_upper |-> {[fit |-> m, at |-> future_df[i], q |-> "upper", rng |-> draw]}]]

\* lines 175-176
ForecastResult(forecast) ==
    [i \in 1..Len(forecast) |->
        [ds |-> forecast[i].ds,
         yhat |-> forecast[i].yhat,
         yhat_lower |-> forecast[i].yhat_lower,
         yhat_upper |-> forecast[i].yhat_upper,
         year |-> DtYear(forecast[i].ds)]]

\* ---------------------------------------------------------------- merges
MatchesOf(right, y) == SelectSeq(right, LAMBDA r : r.year = y)

\* poly_df.merge(forecast_result[[...]], on="year", how="outer")
OuterMerge(left, right) ==
    LET joined(l) ==
            LET ms == MatchesOf(right, l.year)
            IN IF ms = <<>>
               THEN <<[year |-> l.year, poly_prediction |-> l.poly_prediction,
                       yhat |-> {}, yhat_lower |-> {}, yhat_upper |-> {}]>>
               ELSE [j \in 1..Len(ms) |->
                        [year |-> l.year, poly_prediction |-> l.poly_prediction,
                         yhat |-> ms[j].yhat, yhat_lower |-> ms[j].yhat_lower,
                         yhat_upper |-> ms[j].yhat_upper]]
        rightOnly == SelectSeq(right, LAMBDA r : r.year \notin Years(left))
    IN Flatten([i \in 1..Len(left) |-> joined(left[i])])
       \o [j \in 1..Len(rightOnly) |->
              [year |-> rightOnly[j].year, poly_prediction |-> {},
               yhat |-> rightOnly[j].yhat, yhat_lower |-> rightOnly[j].yhat_lower,
               yhat_upper |-> rightOnly[j].yhat_upper]]

WithObserved(l, cell) ==
    [year |-> l.year, poly_prediction |-> l.poly_prediction, yhat |-> l.yhat,
     yhat_lower |-> l.yhat_lower, yhat_upper |-> l.yhat_upper,
     co2_per_capita |-> cell]

\* variant: the observed column attached row by row instead of by year
LeftMergeByPosition(left, right) ==
    [i \in 1..Len(left) |->
        WithObserved(left[i],
            IF i <= Len(right) THEN {right[i].co2_per_capita} ELSE {})]

\* compare_df.merge(df_filtered_forecast, on="year", how="left")
LeftMerge(left, right) ==
    LET joined(l) ==
            LET ms == MatchesOf(right, l.year)
            IN IF ms = <<>>
               THEN <<WithObserved(l, {})>>
               ELSE [j \in 1..Len(ms) |-> WithObserved(l, {ms[j].co2_per_capita})]
    IN Flatten([i \in 1..Len(left) |-> joined(left[i])])
\* ------------------------------------------------------- sidebar controls
\* line 44
CountryOptions(data) == {AllCountries} \cup {r.country : r \in data}

\* line 48
DataMinYear(data) == SetMin({r.year : r \in data})

DataMaxYear(data) == SetMax({r.year : r \in data})

\* variant: the slider starting at max_year itself
FutureSliderMinInclusive(max_year) == max_year

\* line 51: the future-year slider starts one year after the data ends
FutureSliderMin(max_year) == max_year + 1

\* st.slider raises StreamlitAPIException when its value is outside
\* [min_value, max_value] (lines 50-51)
SlidersValid(data, s) ==
    /\ DataMinYear(data) <= HistDefault
    /\ HistDefault <= DataMaxYear(data)
    /\ FutureSliderMin(DataMaxYear(data)) <= s.future
    /\ s.future <= FutureSliderMax

\* the future years a user's choice is drawn from: the slider's lowest
\* value and its default
FutureChoices(data) ==
    {y \in {FutureSliderMin(DataMaxYear(data)), FutureDefault} :
        /\ FutureSliderMin(DataMaxYear(data)) <= y
        /\ y <= FutureSliderMax}

\* ------------------------------------------------------- script sections
\* variant: the forecast section placed above the historical charts
ForecastBeforeCharts ==
    <<"widgets", "polynomial", "prophet", "combine", "show", "historical">>

\* the order of the script's sections, top to bottom
ScriptOrder ==
    <<"widgets", "historical", "polynomial", "prophet", "combine", "show">>

NextPc(p) ==
    LET i == CHOOSE k \in 1..Len(ScriptOrder) : ScriptOrder[k] = p
    IN IF i = Len(ScriptOrder) THEN "done" ELSE ScriptOrder[i + 1]

\* an uncaught exception ends the run; Streamlit shows it below what the
\* run has rendered so far
Raise(kind) ==
    /\ pc' = "exception"
    /\ error' = kind
    /\ rendered' = Append(rendered, "exception")

\* script variables read by the claims
min_year == SetMin(Years(df_filtered_forecast))

max_hist_year == SetMax(Years(df_filtered_forecast))

\* ------------------------------------------------------------------ Init
Cells == Countries \X (FirstYear..LastYear)

Datasets ==
    {{[country |-> c[1], year |-> c[2], co2_per_capita |-> f[c]] :
          c \in {x \in Cells : f[x] # 0}} : f \in [Cells -> Values \cup {0}]}

Init ==
    /\ df \in {d \in Datasets : d # {} /\ Cardinality(d) <= MaxRows}
    /\ session = [country |-> AllCountries, future |-> FutureDefault]
    /\ pc = ScriptOrder[1]
    /\ error = "none"
    /\ rendered = <<>>
    /\ selected_country = ""
    /\ selected_year_hist = 0
    /\ future_year = 0
    /\ df_filtered_forecast = <<>>
    /\ model = {}
    /\ poly_df = <<>>
    /\ prophet_model = {}
    /\ forecast_result = <<>>
    /\ outer_df = <<>>
    /\ compare_df = <<>>
    /\ prev_compare_df = {}

\* --------------------------------------------------------------- actions
\* lines 6-58, the sliders accept their values
WidgetsOk ==
    /\ pc = "widgets"
    /\ SlidersValid(df, session)
    /\ session.country \in CountryOptions(df)
    /\ selected_country' = session.country
    /\ selected_year_hist' = HistDefault
    /\ future_year' = session.future
    /\ rendered' = Append(rendered, "title")
    /\ pc' = NextPc(pc)
    /\ UNCHANGED <<df, session, error, df_filtered_forecast, model, poly_df,
                   prophet_model, forecast_result, outer_df, compare_df,
                   prev_compare_df>>

\* lines 6-51, a slider rejects its value
WidgetsRaise ==
    /\ pc = "widgets"
    /\ ~SlidersValid(df, session)
    /\ pc' = "exception"
    /\ error' = "StreamlitAPIException"
    /\ rendered' = rendered \o <<"title", "exception">>
    /\ UNCHANGED <<df, session, selected_country, selected_year_hist, future_year,
                   df_filtered_forecast, model, poly_df, prophet_model,
                   forecast_result, outer_df, compare_df, prev_compare_df>>

\* lines 60-126: bar chart, line chart, map
HistoricalCharts ==
    /\ pc = "historical"
    /\ rendered' = rendered \o <<"bar_chart", "line_chart", "map">>
    /\ pc' = NextPc(pc)
    /\ UNCHANGED <<df, session, error, selected_country, selected_year_hist,
                   future_year, df_filtered_forecast, model, poly_df,
                   prophet_model, forecast_result, outer_df, compare_df,
                   prev_compare_df>>

\* lines 135-166
PolynomialForecast ==
    /\ pc = "polynomial"
    /\ LET series == Series(df, selected_country)
           m == LinearRegressionFit(series)
       IN /\ df_filtered_forecast' = series
          /\ model' = {m}
          /\ poly_df' = PolyFrame(m, SetMin(Years(series)), future_year)
    /\ pc' = NextPc(pc)
    /\ UNCHANGED <<df, session, error, rendered, selected_country,
                   selected_year_hist, future_year, prophet_model,
                   forecast_result, outer_df, compare_df, prev_compare_df>>

\* lines 168-176, the fit and the prediction succeed
ProphetForecast ==
    /\ pc = "prophet"
    /\ ~FitRaises(ProphetFrame(df_filtered_forecast))
    /\ \E draw \in Draws :
          LET m == ProphetFit(ProphetFrame(df_filtered_forecast))
              future_df == MakeFutureDataframe(m, future_year - max_hist_year)
          IN /\ prophet_model' = {m}
             /\ forecast_result' = ForecastResult(ProphetPredict(m, future_df, draw))
    /\ pc' = NextPc(pc)
    /\ UNCHANGED <<df, session, error, rendered, selected_country,
                   selected_year_hist, future_year, df_filtered_forecast, model,
                   poly_df, outer_df, compare_df, prev_compare_df>>

\* line 172 raises on a series of fewer than 2 rows
ProphetInsufficientData ==
    /\ pc = "prophet"
    /\ FitRaises(ProphetFrame(df_filtered_forecast))
    /\ Raise("ValueError")
    /\ UNCHANGED <<df, session, selected_country, selected_year_hist, future_year,
                   df_filtered_forecast, model, poly_df, prophet_model,
                   forecast_result, outer_df, compare_df, prev_compare_df>>

\* line 172 raises when the optimiser does not converge
ProphetDiverges ==
    /\ pc = "prophet"
    /\ ~FitRaises(ProphetFrame(df_filtered_forecast))
    /\ Raise("RuntimeError")
    /\ UNCHANGED <<df, session, selected_country, selected_year_hist, future_year,
                   df_filtered_forecast, model, poly_df, prophet_model,
                   forecast_result, outer_df, compare_df, prev_compare_df>>

\* lines 178-186
Combine ==
    /\ pc = "combine"
    /\ LET merged == SortValues(OuterMerge(poly_df, forecast_result))
       IN /\ outer_df' = merged
          /\ compare_df' = LeftMerge(merged, df_filtered_forecast)
    /\ pc' = NextPc(pc)
    /\ UNCHANGED <<df, session, error, rendered, selected_country,
                   selected_year_hist, future_year, df_filtered_forecast, model,
                   poly_df, prophet_model, forecast_result, prev_compare_df>>

\* lines 188-269
ShowForecast ==
    /\ pc = "show"
    /\ rendered' = rendered \o <<"forecast_chart", "forecast_table">>
    /\ pc' = NextPc(pc)
    /\ UNCHANGED <<df, session, error, selected_country, selected_year_hist,
                   future_year, df_filtered_forecast, model, poly_df,
                   prophet_model, forecast_result, outer_df, compare_df,
                   prev_compare_df>>

\* Streamlit runs the script again from the top: every script variable is
\* rebound by the new run, the widgets keep their values
Restart(s, prev) ==
    /\ session' = s
    /\ prev_compare_df' = prev
    /\ pc' = ScriptOrder[1]
    /\ error' = "none"
    /\ rendered' = <<>>
    /\ selected_country' = ""
    /\ selected_year_hist' = 0
    /\ future_year' = 0
    /\ df_filtered_forecast' = <<>>
    /\ model' = {}
    /\ poly_df' = <<>>
    /\ prophet_model' = {}
    /\ forecast_result' = <<>>
    /\ outer_df' = <<>>
    /\ compare_df' = <<>>
    /\ UNCHANGED df

\* the user reruns the page without touching a control
Rerun ==
    /\ pc \in {"done", "exception"}
    /\ Restart(session, IF pc = "done" THEN {compare_df} ELSE {})

\* the user picks another country or another future year
UserInput ==
    /\ pc \in {"done", "exception"}
    /\ \E c \in CountryOptions(df), y \in FutureChoices(df) :
          /\ [country |-> c, future |-> y] # session
          /\ Restart([country |-> c, future |-> y], {})

Next ==
    \/ WidgetsOk
    \/ WidgetsRaise
    \/ HistoricalCharts
    \/ PolynomialForecast
    \/ ProphetForecast
    \/ ProphetInsufficientData
    \/ ProphetDiverges
    \/ Combine
    \/ ShowForecast
    \/ Rerun
    \/ UserInput

Spec == Init /\ [][Next]_vars
\* ---------------------------------------------------------------- claims
Range(seq) == {seq[i] : i \in 1..Len(seq)}

PolynomialRan == poly_df # <<>>

ProphetRan == forecast_result # <<>>

Combined == compare_df # <<>>

Observation(y) ==
    {df_filtered_forecast[j].co2_per_capita :
        j \in {k \in 1..Len(df_filtered_forecast) : df_filtered_forecast[k].year = y}}

\* C1: for a series of at least 3 points and a future year after the last
\* historical year, the years of the trend output forecast_result are
\* exactly min_year..future_year, so future_year itself is among them.
C1_TrendCoversRange ==
    (ProphetRan /\ Len(df_filtered_forecast) >= 3 /\ future_year > max_hist_year)
        => Years(forecast_result) = min_year..future_year

\* C2: for a series of at least 3 points, contiguous or sparse, and a
\* future year after the last historical year, poly_df has exactly one row
\* for every year of min_year..future_year and no other row.
C2_PolyCoversRange ==
    (PolynomialRan /\ Len(df_filtered_forecast) >= 3 /\ future_year > max_hist_year)
        => /\ Years(poly_df) = min_year..future_year
           /\ Len(poly_df) = future_year - min_year + 1

C2_Witness ==
    /\ PolynomialRan
    /\ Len(df_filtered_forecast) >= 3
    /\ future_year > max_hist_year
    /\ Years(df_filtered_forecast) # min_year..max_hist_year
    /\ Len(poly_df) > Len(df_filtered_forecast)

\* C3: compare_df has exactly one row per year present in poly_df or in
\* forecast_result, after the outer join and after the left join: no year
\* is in two rows.
C3_OneRowPerYear ==
    Combined =>
        /\ Years(outer_df) = Years(poly_df) \cup Years(forecast_result)
        /\ Years(compare_df) = Years(poly_df) \cup Years(forecast_result)
        /\ \A i, j \in 1..Len(outer_df) :
               outer_df[i].year = outer_df[j].year => i = j
        /\ \A i, j \in 1..Len(compare_df) :
               compare_df[i].year = compare_df[j].year => i = j

\* C4: in compare_df every row of a year up to the last historical year
\* that has an observation carries that observation unchanged, every
\* observation is carried by some row, and every row of a later year has
\* an empty observed cell.
C4_ObservedPreserved ==
    Combined =>
        /\ \A i \in 1..Len(compare_df) :
               LET r == compare_df[i]
               IN /\ (r.year <= max_hist_year /\ Observation(r.year) # {})
                        => r.co2_per_capita = Observation(r.year)
                  /\ r.year > max_hist_year => r.co2_per_capita = {}
        /\ \A y \in Years(df_filtered_forecast) :
               \E i \in 1..Len(compare_df) : compare_df[i].year = y

C4_Witness ==
    /\ Combined
    /\ \E i, j \in 1..Len(compare_df) :
          /\ compare_df[i].year < max_hist_year
          /\ compare_df[i].co2_per_capita # {}
          /\ compare_df[j].year > max_hist_year
          /\ compare_df[j].co2_per_capita = {}
          /\ compare_df[j].poly_prediction # {}

\* C5: a series of fewer than 3 points is rejected with an
\* InsufficientData error and no polynomial curve is produced.
C5_RejectsShortSeries ==
    (df_filtered_forecast # <<>> /\ Len(df_filtered_forecast) < 3)
        => (error = "InsufficientData" /\ poly_df = <<>>)

C7_FitFailureKeepsHistory ==
    error \in {"ValueError", "RuntimeError"} =>
        /\ {"bar_chart", "line_chart", "map"} \subseteq Range(rendered)
        /\ rendered[Len(rendered)] = "exception"

C7_Witness ==
    /\ error = "ValueError"
    /\ pc = "exception"
    /\ Len(df_filtered_forecast) < 2

\* C9: a run that repeats the previous run's input (same data, same country,
\* same future year) ends with the same compare_df as the previous run.
C9_SameInputSameOutput ==
    (pc = "done" /\ prev_compare_df # {}) => prev_compare_df = {compare_df}

\* C10: the final compare_df is ascending by year: no row's year is greater
\* than the next row's.
C10_AscendingByYear ==
    Combined =>
        \A i \in 1..(Len(compare_df) - 1) :
            compare_df[i].year <= compare_df[i + 1].year

C10_Witness ==
    /\ Combined
    /\ Cardinality(Years(compare_df)) >= 3
    /\ \E i \in 1..(Len(compare_df) - 1) :
          compare_df[i].year = compare_df[i + 1].year
====
